---- MODULE Spec2Model ----
(***************************************************************************)
(* Shape-level model of rosnav/model/feature_extractors/resnet.py:          *)
(* the convolution factories, the Bottleneck block, the stage builder      *)
(* (_make_layer), the network assembler (_setup_network), the input size    *)
(* resolver (_get_input_sizes) and the forward pipeline (forward,           *)
(* _forward_impl) of MID_FUSION_BOTTLENECK_EXTRACTOR_1.                     *)
(*                                                                         *)
(* A tensor is modelled by its shape, by whether it may share storage with  *)
(* the observation tensor, and by the side effects the computation that     *)
(* produced it has had so far.  A module is a record of its constructor     *)
(* parameters and of its weights (abstract tokens, or 0/1 for the           *)
(* normalization weights).  nn.Sequential is a sequence of modules and      *)
(* None is the empty sequence.                                              *)
(***************************************************************************)
EXTENDS Integers, Sequences, FiniteSets, TLC

VARIABLES
    pc,                             \* position in the program
    layers,                         \* self._layers
    replace_stride_with_dilation,   \* self._replace_stride_with_dilation
    zero_init_residual,             \* self._zero_init_residual
    groups,                         \* self._groups
    width_per_group,                \* self._width_per_group
    stacked_obs,                    \* self._stacked_obs
    features_dim,                   \* self._features_dim
    inplanes,                       \* self.inplanes
    dilation,                       \* self.dilation
    net,                            \* the submodules created so far, by attribute name
    sizes,                          \* the cached input sizes
    training,                       \* nn.Module.training
    num_batches_tracked,            \* running-statistics updates per normalization operator
    last,                           \* the last call of the operation under study, and its outcome
    error                           \* the exception that ended construction, or "none"

vars == <<pc, layers, replace_stride_with_dilation, zero_init_residual, groups,
          width_per_group, stacked_obs, features_dim, inplanes, dilation, net,
          sizes, training, num_batches_tracked, last, error>>

cfgvars == <<layers, replace_stride_with_dilation, zero_init_residual, groups,
             width_per_group, stacked_obs, features_dim>>

(***************************************************************************)
(* Bounds of the model.                                                    *)
(***************************************************************************)
MaxBlocks == 2          \* block counts per stage are 1..MaxBlocks
MaxLayersLen == 3       \* len(layers) and len(replace_stride_with_dilation) are 2..MaxLayersLen
MaxGroups == 2          \* groups are 1..MaxGroups
MaxBatch == 2           \* batch sizes are 1..MaxBatch
MaxMapSize == 4         \* feature_map_size S is 1..MaxMapSize
MaxGoal == 2            \* goal_size is 1..MaxGoal
MaxTracked == 1         \* training-mode forward calls that are followed
MaxExtra == 1           \* observation columns that follow the goal are 0..MaxExtra
MaxStride == 2          \* strides given to a single block or stage are 1..MaxStride
MaxSide == 4            \* spatial sizes given to a single block or stage are 1..MaxSide
MaxDilation == 2        \* running dilation before a stage is built is 1..MaxDilation
MaxPlanes == 4          \* planes given to a single block or stage are 2..MaxPlanes

expansion == 2

Max(a, b) == IF a >= b THEN a ELSE b
Min(a, b) == IF a <= b THEN a ELSE b

None == <<>>

(***************************************************************************)
(* Modules.                                                                *)
(***************************************************************************)
Conv2d(in_channels, out_channels, kernel_size, stride, padding, grps, bias, dil) ==
    [kind |-> "Conv2d", in_channels |-> in_channels, out_channels |-> out_channels,
     kernel_size |-> kernel_size, stride |-> stride, padding |-> padding,
     groups |-> grps, bias |-> bias, dilation |-> dil, weight |-> "default"]

\* nn.Conv2d called without bias=, groups= and dilation=: bias defaults to True
Conv2dDefault(in_channels, out_channels, kernel_size, stride, padding) ==
    Conv2d(in_channels, out_channels, kernel_size, stride, padding, 1, TRUE, 1)

BatchNorm2d(num_features) ==
    [kind |-> "BatchNorm2d", num_features |-> num_features, weight |-> 1, bias |-> 0]

ReLU(inplace) == [kind |-> "ReLU", inplace |-> inplace]

MaxPool2d(kernel_size, stride, padding) ==
    [kind |-> "MaxPool2d", kernel_size |-> kernel_size, stride |-> stride, padding |-> padding]

AdaptiveAvgPool2d(h, w) == [kind |-> "AdaptiveAvgPool2d", output_size |-> <<h, w>>]

Linear(in_features, out_features) ==
    [kind |-> "Linear", in_features |-> in_features, out_features |-> out_features,
     weight |-> "default"]

conv3x3_pad1(in_planes, out_planes, stride, grps, dil) ==
    Conv2d(in_planes, out_planes, 3, stride, 1, grps, FALSE, dil)

conv3x3(in_planes, out_planes, stride, grps, dil) ==
    Conv2d(in_planes, out_planes, 3, stride, dil, grps, FALSE, dil)

conv1x1(in_planes, out_planes, stride) ==
    Conv2d(in_planes, out_planes, 1, stride, 0, 1, FALSE, 1)

Width_RoundedOnce(planes, base_width, grps) == (planes * base_width * grps) \div 64

\* width = int(planes * (base_width / 64.0)) * groups
Width(planes, base_width, grps) == ((planes * base_width) \div 64) * grps

Bottleneck(inpl, planes, stride, downsample, grps, base_width, dil) ==
    LET width == Width(planes, base_width, grps)
    IN  [kind |-> "Bottleneck",
         conv1 |-> conv1x1(inpl, width, 1),
         bn1 |-> BatchNorm2d(width),
         conv2 |-> conv3x3(width, width, stride, grps, dil),
         bn2 |-> BatchNorm2d(width),
         conv3 |-> conv1x1(width, planes * expansion, 1),
         bn3 |-> BatchNorm2d(planes * expansion),
         relu |-> ReLU(TRUE),
         downsample |-> downsample,
         stride |-> stride]

(***************************************************************************)
(* The stage builder.                                                       *)
(***************************************************************************)
NeedsDownsample_StrideOnly(stride, inpl, planes) == stride # 1

\* if stride != 1 or self.inplanes != planes * block.expansion
NeedsDownsample(stride, inpl, planes) == stride # 1 \/ inpl # planes * expansion

DilatedStride_Kept(stride, dilate) == stride

\* if dilate: ...; stride = 1
DilatedStride(stride, dilate) == IF dilate THEN 1 ELSE stride

\* if dilate: self.dilation *= stride
DilatedDilation(dil, stride, dilate) == IF dilate THEN dil * stride ELSE dil

\* The result of _make_layer: the nn.Sequential it returns and the values it
\* leaves in self.inplanes and self.dilation.
_make_layer(inpl, dil, planes, blocks, stride0, dilate, grps, base_width) ==
    LET previous_dilation == dil
        dilation1 == DilatedDilation(dil, stride0, dilate)
        stride == DilatedStride(stride0, dilate)
        downsample == IF NeedsDownsample(stride, inpl, planes)
                      THEN <<conv1x1(inpl, planes * expansion, stride),
                             BatchNorm2d(planes * expansion)>>
                      ELSE None
        first == Bottleneck(inpl, planes, stride, downsample, grps, base_width,
                            previous_dilation)
        inplanes1 == planes * expansion
        rest == [i \in 1..Max(blocks - 1, 0) |->
                    Bottleneck(inplanes1, planes, 1, None, grps, base_width, dilation1)]
    IN  [layers |-> <<first>> \o rest, inplanes |-> inplanes1, dilation |-> dilation1]

(***************************************************************************)
(* Tensors.  shape is the tensor's shape; alias says that the tensor may    *)
(* share storage with the observation tensor; err, touched and written are  *)
(* the effects of the computation so far: an exception was raised, the      *)
(* normalization operators whose running statistics were updated, and       *)
(* whether an in-place operation wrote into the observation's storage.      *)
(***************************************************************************)
Tensor(shape, alias) ==
    [err |-> FALSE, shape |-> shape, alias |-> alias, touched |-> {}, written |-> FALSE]

Raise(t) == [t EXCEPT !.err = TRUE, !.shape = <<>>, !.alias = FALSE]

\* t, evaluated after the computation that produced prev
Then(prev, t) ==
    [t EXCEPT !.err = prev.err \/ t.err,
              !.shape = IF prev.err \/ t.err THEN <<>> ELSE t.shape,
              !.alias = IF prev.err \/ t.err THEN FALSE ELSE t.alias,
              !.touched = prev.touched \cup t.touched,
              !.written = prev.written \/ t.written]

RECURSIVE Numel(_)
Numel(shape) == IF Len(shape) = 0 THEN 1 ELSE Head(shape) * Numel(Tail(shape))

\* observations[:, start:stop] on a row of n columns, as Python resolves a slice:
\* a negative index counts from the end, and both ends are clipped to 0..n
SliceIndex(i, n) == IF i < 0 THEN Max(n + i, 0) ELSE Min(i, n)

SliceRange(start, stop, n) ==
    LET lo == SliceIndex(start, n)
        hi == SliceIndex(stop, n)
    IN  [lo |-> lo, hi |-> Max(hi, lo)]

SliceColumns(t, start, stop) ==
    LET r == SliceRange(start, stop, t.shape[2])
    IN  [t EXCEPT !.shape = <<t.shape[1], r.hi - r.lo>>, !.alias = t.alias]

\* t.reshape(-1, *tail)
Reshape(t, tail) ==
    IF t.err THEN t
    ELSE IF Numel(tail) = 0 \/ Numel(t.shape) % Numel(tail) # 0 THEN Raise(t)
    ELSE [t EXCEPT !.shape = <<Numel(t.shape) \div Numel(tail)>> \o tail]

\* torch.flatten(t, 1)
Flatten1(t) ==
    IF t.err THEN t
    ELSE [t EXCEPT !.shape = <<t.shape[1], Numel(Tail(t.shape))>>]

\* torch.cat((a, b), dim=1), b evaluated after a
Cat1(a, b) ==
    LET e == Then(a, b)
    IN  IF e.err THEN e
        ELSE IF Len(a.shape) # Len(b.shape)
                \/ \E i \in 1..Len(a.shape) : i # 2 /\ a.shape[i] # b.shape[i]
        THEN Raise(e)
        ELSE [e EXCEPT !.shape = [a.shape EXCEPT ![2] = a.shape[2] + b.shape[2]],
                       !.alias = FALSE]

\* the output side of a convolution or pooling window over an input side h
WindowOut(h, kernel_size, stride, padding, dil) ==
    ((h + 2 * padding - dil * (kernel_size - 1) - 1) \div stride) + 1

WindowFits(h, kernel_size, padding, dil) ==
    h + 2 * padding - dil * (kernel_size - 1) - 1 >= 0

Conv2dForward(m, t) ==
    IF t.err THEN t
    ELSE IF Len(t.shape) # 4 \/ t.shape[2] # m.in_channels
            \/ ~WindowFits(t.shape[3], m.kernel_size, m.padding, m.dilation)
            \/ ~WindowFits(t.shape[4], m.kernel_size, m.padding, m.dilation)
    THEN Raise(t)
    ELSE [t EXCEPT !.shape = <<t.shape[1], m.out_channels,
                               WindowOut(t.shape[3], m.kernel_size, m.stride, m.padding, m.dilation),
                               WindowOut(t.shape[4], m.kernel_size, m.stride, m.padding, m.dilation)>>,
                   !.alias = FALSE]

UpdatesRunningStats_Always(train) == TRUE

\* a normalization operator updates its running statistics in training mode only
UpdatesRunningStats(train) == train

\* BatchNorm2d in training mode needs more than one value per channel
BatchNorm2dForward(m, path, t, train) ==
    IF t.err THEN t
    ELSE IF Len(t.shape) # 4 \/ t.shape[2] # m.num_features
            \/ (train /\ t.shape[1] * t.shape[3] * t.shape[4] <= 1)
    THEN Raise(t)
    ELSE [t EXCEPT !.alias = FALSE,
                   !.touched = IF UpdatesRunningStats(train) THEN @ \cup {path} ELSE @]

\* nn.ReLU: in place it writes into the storage of its argument
ReLUForward(m, t) ==
    IF t.err THEN t
    ELSE [t EXCEPT !.written = @ \/ (m.inplace /\ t.alias),
                   !.alias = IF m.inplace THEN @ ELSE FALSE]

MaxPool2dForward(m, t) ==
    IF t.err THEN t
    ELSE IF Len(t.shape) # 4
            \/ ~WindowFits(t.shape[3], m.kernel_size, m.padding, 1)
            \/ ~WindowFits(t.shape[4], m.kernel_size, m.padding, 1)
    THEN Raise(t)
    ELSE [t EXCEPT !.shape = <<t.shape[1], t.shape[2],
                               WindowOut(t.shape[3], m.kernel_size, m.stride, m.padding, 1),
                               WindowOut(t.shape[4], m.kernel_size, m.stride, m.padding, 1)>>,
                   !.alias = FALSE]

AdaptiveAvgPool2dForward(m, t) ==
    IF t.err THEN t
    ELSE IF Len(t.shape) # 4 THEN Raise(t)
    ELSE [t EXCEPT !.shape = <<t.shape[1], t.shape[2], m.output_size[1], m.output_size[2]>>,
                   !.alias = FALSE]

LinearForward(m, t) ==
    IF t.err THEN t
    ELSE IF Len(t.shape) = 0 \/ t.shape[Len(t.shape)] # m.in_features THEN Raise(t)
    ELSE [t EXCEPT !.shape = [t.shape EXCEPT ![Len(t.shape)] = m.out_features],
                   !.alias = FALSE]

\* whether b can be added into a in place: b broadcasts to the shape of a
Broadcastable(a, b) ==
    /\ Len(b) <= Len(a)
    /\ \A i \in 1..Len(b) :
          LET bi == b[Len(b) + 1 - i]
              ai == a[Len(a) + 1 - i]
          IN  bi = ai \/ bi = 1

\* out += identity, identity evaluated after out
AddInplace(out, identity) ==
    LET e == Then(out, identity)
    IN  IF e.err THEN e
        ELSE IF ~Broadcastable(out.shape, identity.shape) THEN Raise(e)
        ELSE [e EXCEPT !.shape = out.shape, !.alias = out.alias,
                       !.written = @ \/ out.alias]

\* Bottleneck.forward up to bn3: the residual branch of the block that is
\* element idx of the stage called name
BottleneckBranch(m, name, idx, x, train) ==
    LET o1 == ReLUForward(m.relu,
                 BatchNorm2dForward(m.bn1, <<name, idx, "bn1">>, Conv2dForward(m.conv1, x), train))
        o2 == ReLUForward(m.relu,
                 BatchNorm2dForward(m.bn2, <<name, idx, "bn2">>, Conv2dForward(m.conv2, o1), train))
    IN  BatchNorm2dForward(m.bn3, <<name, idx, "bn3">>, Conv2dForward(m.conv3, o2), train)

\* identity = x, or self.downsample(x) when there is a projection shortcut,
\* evaluated after the residual branch out
BottleneckIdentity(m, name, idx, x, out, train) ==
    LET after == Then(out, x)
    IN  IF Len(m.downsample) > 0
        THEN BatchNorm2dForward(m.downsample[2], <<name, idx, "downsample">>,
                                Conv2dForward(m.downsample[1], after), train)
        ELSE after

\* out += identity; out = self.relu(out)
BottleneckForward(m, name, idx, x, train) ==
    LET out == BottleneckBranch(m, name, idx, x, train)
    IN  ReLUForward(m.relu, AddInplace(out, BottleneckIdentity(m, name, idx, x, out, train)))

ModuleForward(m, name, idx, t, train) ==
    CASE m.kind = "Conv2d" -> Conv2dForward(m, t)
      [] m.kind = "BatchNorm2d" -> BatchNorm2dForward(m, <<name, idx, "bn">>, t, train)
      [] m.kind = "ReLU" -> ReLUForward(m, t)
      [] m.kind = "MaxPool2d" -> MaxPool2dForward(m, t)
      [] m.kind = "AdaptiveAvgPool2d" -> AdaptiveAvgPool2dForward(m, t)
      [] m.kind = "Linear" -> LinearForward(m, t)
      [] m.kind = "Bottleneck" -> BottleneckForward(m, name, idx, t, train)

\* nn.Sequential.forward, from element i on; an exception ends it
RECURSIVE SequentialFrom(_, _, _, _, _)
SequentialFrom(seq, name, i, t, train) ==
    IF i > Len(seq) \/ t.err THEN t
    ELSE SequentialFrom(seq, name, i + 1, ModuleForward(seq[i], name, i, t, train), train)

SequentialForward(seq, name, t, train) == SequentialFrom(seq, name, 1, t, train)

(***************************************************************************)
(* The network assembler, _setup_network.                                   *)
(***************************************************************************)
SequentialNames ==
    {"layer1", "layer2", "layer3", "conv2_2", "downsample2", "conv3_2", "downsample3",
     "linear_fc"}

LengthMismatch_Shorter(flags, lay) == Len(flags) < Len(lay)

\* if len(self._replace_stride_with_dilation) != len(self._layers)
LengthMismatch(flags, lay) == Len(flags) # Len(lay)

\* [False] * len(self._layers)
AllFalse(lay) == [i \in 1..Len(lay) |-> FALSE]

StemModules ==
    [conv1 |-> Conv2d(3, 64, 3, 1, 1, 1, FALSE, 1),
     bn1 |-> BatchNorm2d(64),
     relu |-> ReLU(TRUE),
     maxpool |-> MaxPool2d(3, 1, 1)]

\* the 1x1 / 3x3 / 1x1 transform of a fusion branch
FusionTransform(outer, inner) ==
    <<Conv2dDefault(outer, inner, 1, 1, 0), BatchNorm2d(inner), ReLU(TRUE),
      Conv2dDefault(inner, inner, 3, 1, 1), BatchNorm2d(inner), ReLU(TRUE),
      Conv2dDefault(inner, outer, 1, 1, 0), BatchNorm2d(outer)>>

\* the projection of a fusion branch
FusionProjection(in_channels, out_channels, stride) ==
    <<Conv2dDefault(in_channels, out_channels, 1, stride, 0), BatchNorm2d(out_channels)>>

FusionModules ==
    [conv2_2 |-> FusionTransform(256, 128),
     downsample2 |-> FusionProjection(128, 256, 2),
     relu2 |-> ReLU(TRUE),
     conv3_2 |-> FusionTransform(512, 256),
     downsample3 |-> FusionProjection(64, 512, 4),
     relu3 |-> ReLU(TRUE)]

HeadModules(fdim) ==
    [avgpool |-> AdaptiveAvgPool2d(1, 1),
     linear_fc |-> <<Linear(256 * expansion + 2, fdim), ReLU(FALSE)>>]

\* the first loop over self.modules(): one module
InitLeaf(m) ==
    CASE m.kind = "Conv2d" -> [m EXCEPT !.weight = "kaiming_normal"]
      [] m.kind = "BatchNorm2d" -> [m EXCEPT !.weight = 1, !.bias = 0]
      [] m.kind = "Linear" -> [m EXCEPT !.weight = "xavier_normal"]
      [] OTHER -> m

InitModule(m) ==
    IF m.kind = "Bottleneck"
    THEN [m EXCEPT !.conv1 = InitLeaf(@), !.bn1 = InitLeaf(@),
                   !.conv2 = InitLeaf(@), !.bn2 = InitLeaf(@),
                   !.conv3 = InitLeaf(@), !.bn3 = InitLeaf(@),
                   !.downsample = [i \in 1..Len(@) |-> InitLeaf(@[i])]]
    ELSE InitLeaf(m)

InitAll(network) ==
    [name \in DOMAIN network |->
        IF name \in SequentialNames
        THEN [i \in 1..Len(network[name]) |-> InitModule(network[name][i])]
        ELSE InitModule(network[name])]

ZeroInitBlock_bn2(m) == [m EXCEPT !.bn2.weight = 0]

\* nn.init.constant_(m.bn3.weight, 0)
ZeroInitBlock(m) == [m EXCEPT !.bn3.weight = 0]

\* the second loop over self.modules()
ZeroInitAll(network) ==
    [name \in DOMAIN network |->
        IF name \in SequentialNames
        THEN [i \in 1..Len(network[name]) |->
                 IF network[name][i].kind = "Bottleneck"
                 THEN ZeroInitBlock(network[name][i])
                 ELSE network[name][i]]
        ELSE network[name]]

\* the normalization operators of a network, by path
NormPaths(network) ==
    UNION {
        IF name \in SequentialNames
        THEN UNION {
                IF network[name][i].kind = "Bottleneck"
                THEN {<<name, i, "bn1">>, <<name, i, "bn2">>, <<name, i, "bn3">>}
                     \cup (IF Len(network[name][i].downsample) > 0
                           THEN {<<name, i, "downsample">>} ELSE {})
                ELSE IF network[name][i].kind = "BatchNorm2d" THEN {<<name, i, "bn">>}
                ELSE {} : i \in 1..Len(network[name])}
        ELSE IF network[name].kind = "BatchNorm2d" THEN {<<name, 0, "bn">>}
        ELSE {} : name \in DOMAIN network}

\* the network _setup_network leaves behind when it raises nothing
Assembled(lay, flags, zero, grps, wpg, fdim) ==
    LET l1 == _make_layer(64, 1, 64, lay[1], 1, FALSE, grps, wpg)
        l2 == _make_layer(l1.inplanes, l1.dilation, 128, lay[2], 2, flags[1], grps, wpg)
        l3 == _make_layer(l2.inplanes, l2.dilation, 256, lay[3], 2, flags[2], grps, wpg)
        created == StemModules @@ [layer1 |-> l1.layers, layer2 |-> l2.layers,
                                   layer3 |-> l3.layers]
                     @@ FusionModules @@ HeadModules(fdim)
        initialized == InitAll(created)
    IN  [net |-> IF zero THEN ZeroInitAll(initialized) ELSE initialized,
         inplanes |-> l3.inplanes, dilation |-> l3.dilation]

(***************************************************************************)
(* The forward pipeline.                                                    *)
(***************************************************************************)
\* ped_in, scan_in and fusion_in of _forward_impl
FusionInput(S, ped_pos, scan) ==
    LET ped_in == Reshape(ped_pos, <<2, S, S>>)
        scan_in == Reshape(Then(ped_in, scan), <<1, S, S>>)
    IN  Cat1(scan_in, ped_in)

\* self.conv1 ... self.maxpool
StemForward(network, fusion_in, train) ==
    MaxPool2dForward(network.maxpool,
        ReLUForward(network.relu,
            BatchNorm2dForward(network.bn1, <<"bn1", 0, "bn">>,
                Conv2dForward(network.conv1, fusion_in), train)))

\* x += identity; x = relu(x) of a fusion branch, identity computed before x
FusionSum(relu, x, identity) == ReLUForward(relu, AddInplace(x, Then(x, identity)))

\* identity3 = self.downsample3(x); x = self.layer1(x)
Stage1Forward(network, x, train) ==
    LET identity3 == SequentialForward(network.downsample3, "downsample3", x, train)
    IN  [stem |-> x.shape,
         identity3 |-> identity3,
         x |-> SequentialForward(network.layer1, "layer1", Then(identity3, x), train)]

\* identity2 = self.downsample2(x) ... x = self.relu2(x)
Stage2Forward(network, c, train) ==
    LET identity2 == SequentialForward(network.downsample2, "downsample2", c.x, train)
        x6 == SequentialForward(network.layer2, "layer2", Then(identity2, c.x), train)
        x7 == SequentialForward(network.conv2_2, "conv2_2", x6, train)
    IN  [stem |-> c.stem,
         identity3 |-> c.identity3,
         layer1 |-> c.x.shape,
         layer2 |-> x6.shape,
         sum2 |-> <<x7.shape, identity2.shape>>,
         x |-> FusionSum(network.relu2, x7, identity2)]

\* x = self.layer3(x) ... x = self.relu3(x)
Stage3Forward(network, c, train) ==
    LET x9 == SequentialForward(network.layer3, "layer3", c.x, train)
        x10 == SequentialForward(network.conv3_2, "conv3_2", x9, train)
    IN  [stem |-> c.stem,
         layer1 |-> c.layer1,
         layer2 |-> c.layer2,
         sum2 |-> c.sum2,
         layer3 |-> x9.shape,
         sum3 |-> <<x10.shape, c.identity3.shape>>,
         x |-> FusionSum(network.relu3, x10, c.identity3)]

\* x = self.avgpool(x) ... x = self.linear_fc(fc_in)
HeadForward(network, c, goal, train) ==
    LET fusion_out == Flatten1(AdaptiveAvgPool2dForward(network.avgpool, c.x))
        goal_out == Flatten1(Reshape(Then(fusion_out, goal), <<2>>))
    IN  [stem |-> c.stem,
         layer1 |-> c.layer1,
         layer2 |-> c.layer2,
         sum2 |-> c.sum2,
         layer3 |-> c.layer3,
         sum3 |-> c.sum3,
         out |-> SequentialForward(network.linear_fc, "linear_fc",
                                   Cat1(fusion_out, goal_out), train)]

\* _forward_impl: the shapes after the stem and after each stage, the operands
\* of the two fusion sums, and the output
_forward_impl(network, S, ped_pos, scan, goal, train) ==
    HeadForward(network,
        Stage3Forward(network,
            Stage2Forward(network,
                Stage1Forward(network,
                    StemForward(network, FusionInput(S, ped_pos, scan), train),
                    train),
                train),
            train),
        goal, train)

\* forward: the column ranges of the three slices, and the result of
\* _forward_impl on them.  Both branches of "if not self._stacked_obs" hold the
\* same three slice expressions.
forward(network, sz, stacked, observations, train) ==
    LET n == observations.shape[2]
        scan == SliceRange(0, sz.scan_map_size, n)
        ped_pos == SliceRange(sz.scan_map_size, sz.ped_map_size, n)
        goal == SliceRange(0, 0 - sz.goal_size, n)
    IN  [slices |-> [scan |-> scan, ped_pos |-> ped_pos, goal |-> goal],
         impl |-> _forward_impl(network, sz.feature_map_size,
                     SliceColumns(observations, sz.scan_map_size, sz.ped_map_size),
                     SliceColumns(observations, 0, sz.scan_map_size),
                     SliceColumns(observations, 0, 0 - sz.goal_size),
                     train)]

(***************************************************************************)
(* Construction: __init__ stores its arguments and _setup_network builds    *)
(* the network, one statement group after the other.                        *)
(***************************************************************************)
DefaultFeaturesDim == 256
DefaultGroups == 1
DefaultWidthPerGroup == 64

BlockCounts == 1..MaxBlocks
LayersArgs == UNION {[1..n -> BlockCounts] : n \in 2..MaxLayersLen}
DilationArgs == {None} \cup UNION {[1..n -> BOOLEAN] : n \in 2..MaxLayersLen}
BaseWidths == {DefaultWidthPerGroup \div 2, DefaultWidthPerGroup}

NoCall == [op |-> "none"]

Init ==
    /\ pc = "setup"
    /\ layers \in LayersArgs
    /\ replace_stride_with_dilation \in DilationArgs
    /\ zero_init_residual \in BOOLEAN
    /\ groups \in 1..MaxGroups
    /\ width_per_group \in BaseWidths
    /\ stacked_obs \in BOOLEAN
    /\ features_dim = DefaultFeaturesDim
    /\ inplanes = 0
    /\ dilation = 0
    /\ net = <<>>
    /\ sizes = None
    /\ training = TRUE
    /\ num_batches_tracked = <<>>
    /\ last = [op |-> "__init__", replace_stride_with_dilation |-> replace_stride_with_dilation]
    /\ error = "none"

\* self.inplanes = 64 ... raise ValueError(...)
Validate ==
    /\ pc = "setup"
    /\ inplanes' = 64
    /\ dilation' = 1
    /\ LET flags == IF replace_stride_with_dilation = None
                    THEN AllFalse(layers)
                    ELSE replace_stride_with_dilation
       IN  /\ replace_stride_with_dilation' = flags
           /\ IF LengthMismatch(flags, layers)
              THEN pc' = "failed" /\ error' = "ValueError"
              ELSE pc' = "stem" /\ error' = error
    /\ UNCHANGED <<layers, zero_init_residual, groups, width_per_group, stacked_obs,
                   features_dim, net, sizes, training, num_batches_tracked, last>>

\* net after the modules of created have been assigned to attributes of self
Register(created) ==
    /\ net' = created @@ net
    /\ num_batches_tracked' = [path \in NormPaths(created @@ net) |-> 0]

\* self.conv1 = ... self.maxpool = ...
SetupStem ==
    /\ pc = "stem"
    /\ Register(StemModules)
    /\ pc' = "layer1"
    /\ UNCHANGED <<cfgvars, inplanes, dilation, sizes, training, last, error>>

\* self.layerK = self._make_layer(self._block, planes, self._layers[K - 1], ...);
\* an index past the end of a list raises IndexError
SetupLayer(K, planes, stride, next) ==
    /\ pc = <<"layer1", "layer2", "layer3">>[K]
    /\ IF K > Len(layers) \/ (K > 1 /\ K - 1 > Len(replace_stride_with_dilation))
       THEN /\ pc' = "failed"
            /\ error' = "IndexError"
            /\ UNCHANGED <<inplanes, dilation, net, num_batches_tracked>>
       ELSE LET dilate == IF K = 1 THEN FALSE ELSE replace_stride_with_dilation[K - 1]
                made == _make_layer(inplanes, dilation, planes, layers[K], stride, dilate,
                                    groups, width_per_group)
            IN  /\ Register(<<"layer1", "layer2", "layer3">>[K] :> made.layers)
                /\ inplanes' = made.inplanes
                /\ dilation' = made.dilation
                /\ pc' = next
                /\ error' = error
    /\ UNCHANGED <<cfgvars, sizes, training, last>>

SetupLayer1 == SetupLayer(1, 64, 1, "layer2")
SetupLayer2 == SetupLayer(2, 128, 2, "layer3")
SetupLayer3 == SetupLayer(3, 256, 2, "fusion")

\* self.conv2_2 = ... self.relu3 = ...
SetupFusion ==
    /\ pc = "fusion"
    /\ Register(FusionModules)
    /\ pc' = "head"
    /\ UNCHANGED <<cfgvars, inplanes, dilation, sizes, training, last, error>>

\* self.avgpool = ...; self.linear_fc = ...
SetupHead ==
    /\ pc = "head"
    /\ Register(HeadModules(features_dim))
    /\ pc' = "init"
    /\ UNCHANGED <<cfgvars, inplanes, dilation, sizes, training, last, error>>

\* for m in self.modules(): ... (the general initialization pass)
InitWeights ==
    /\ pc = "init"
    /\ net' = InitAll(net)
    /\ pc' = "zero_init"
    /\ UNCHANGED <<cfgvars, inplanes, dilation, sizes, training, num_batches_tracked,
                   last, error>>

\* if self._zero_init_residual: ...
ZeroInit ==
    /\ pc = "zero_init"
    /\ net' = IF zero_init_residual THEN ZeroInitAll(net) ELSE net
    /\ pc' = "built"
    /\ UNCHANGED <<cfgvars, inplanes, dilation, sizes, training, num_batches_tracked,
                   last, error>>

Next ==
    \/ Validate
    \/ SetupStem
    \/ SetupLayer1
    \/ SetupLayer2
    \/ SetupLayer3
    \/ SetupFusion
    \/ SetupHead
    \/ InitWeights
    \/ ZeroInit

Spec == Init /\ [][Next]_vars

(***************************************************************************)
(* Use of the constructed extractor: _get_input_sizes, forward,             *)
(* _forward_impl, and the mode switches train() and eval().                 *)
(***************************************************************************)
ForwardLayers == {<<2, 1, 1>>, <<1, 1, 1>>}

AssembledWith(flagsets) ==
    /\ pc = "sizes"
    /\ layers \in ForwardLayers
    /\ replace_stride_with_dilation \in flagsets
    /\ zero_init_residual = TRUE
    /\ groups = DefaultGroups
    /\ width_per_group = DefaultWidthPerGroup
    /\ stacked_obs \in BOOLEAN
    /\ features_dim = DefaultFeaturesDim
    /\ LET built == Assembled(layers, replace_stride_with_dilation, zero_init_residual,
                              groups, width_per_group, features_dim)
       IN  /\ net = built.net
           /\ inplanes = built.inplanes
           /\ dilation = built.dilation
           /\ num_batches_tracked = [path \in NormPaths(built.net) |-> 0]
    /\ sizes = None
    /\ training = TRUE
    /\ last = NoCall
    /\ error = "none"

InitForward == AssembledWith({AllFalse(<<2, 1, 1>>)})

\* _get_input_sizes: S is the registry's feature_map_size, the other arguments
\* are the last dimensions of the registry's shapes
GetInputSizes(S, laser, ped_location, ped_type, goal) ==
    /\ pc = "sizes"
    /\ sizes' = [feature_map_size |-> S,
                 scan_map_size |-> laser,
                 ped_map_size |-> ped_location + ped_type,
                 goal_size |-> goal]
    /\ pc' = "ready"
    /\ UNCHANGED <<cfgvars, inplanes, dilation, net, training, num_batches_tracked,
                   last, error>>

\* the running statistics after a call that updated the operators of touched
Tracked(touched) ==
    [path \in DOMAIN num_batches_tracked |->
        num_batches_tracked[path] + (IF path \in touched THEN 1 ELSE 0)]

CanTrack == training => \A path \in DOMAIN num_batches_tracked :
                            num_batches_tracked[path] < MaxTracked

\* forward(observations), observations of shape (batch, n)
Forward(batch, extra) ==
    /\ pc = "ready"
    /\ CanTrack
    /\ LET n == sizes.scan_map_size + sizes.ped_map_size + sizes.goal_size + extra
           r == forward(net, sizes, stacked_obs, Tensor(<<batch, n>>, TRUE), training)
       IN  /\ last' = [op |-> "forward", batch |-> batch, n |-> n, training |-> training,
                       slices |-> r.slices, out |-> r.impl.out, stem |-> r.impl.stem,
                       sum2 |-> r.impl.sum2, sum3 |-> r.impl.sum3]
           /\ num_batches_tracked' = Tracked(r.impl.out.touched)
    /\ UNCHANGED <<cfgvars, pc, inplanes, dilation, net, sizes, training, error>>

\* _forward_impl(ped_pos, scan, goal), each argument the flattened slice of its
\* modality for a batch of the given size
ForwardImpl(batch) ==
    /\ pc = "ready"
    /\ CanTrack
    /\ LET S == sizes.feature_map_size
           r == _forward_impl(net, S, Tensor(<<batch, 2 * S * S>>, TRUE),
                              Tensor(<<batch, S * S>>, TRUE), Tensor(<<batch, 2>>, TRUE),
                              training)
       IN  /\ last' = [op |-> "_forward_impl", batch |-> batch, training |-> training,
                       out |-> r.out, stem |-> r.stem, sum2 |-> r.sum2, sum3 |-> r.sum3]
           /\ num_batches_tracked' = Tracked(r.out.touched)
    /\ UNCHANGED <<cfgvars, pc, inplanes, dilation, net, sizes, training, error>>

\* nn.Module.train()
Train ==
    /\ pc = "ready"
    /\ ~training
    /\ training' = TRUE
    /\ UNCHANGED <<cfgvars, pc, inplanes, dilation, net, sizes, num_batches_tracked,
                   last, error>>

\* nn.Module.eval()
Eval ==
    /\ pc = "ready"
    /\ training
    /\ training' = FALSE
    /\ UNCHANGED <<cfgvars, pc, inplanes, dilation, net, sizes, num_batches_tracked,
                   last, error>>

\* the registry reports a laser map and two pedestrian maps of S * S cells each
ResolveSizes ==
    \E S \in 1..MaxMapSize, goal \in 1..MaxGoal :
        GetInputSizes(S, S * S, S * S, S * S, goal)

CallForward == \E batch \in 1..MaxBatch, extra \in 0..MaxExtra : Forward(batch, extra)

CallForwardImpl == \E batch \in 1..MaxBatch : ForwardImpl(batch)

NextForward ==
    \/ ResolveSizes
    \/ CallForward
    \/ CallForwardImpl
    \/ Train
    \/ Eval

SpecForward == InitForward /\ [][NextForward]_vars

(***************************************************************************)
(* _forward_impl on the networks of every accepted dilation configuration.  *)
(***************************************************************************)
InitFusion == AssembledWith([1..3 -> BOOLEAN]) /\ stacked_obs = FALSE

NextFusion ==
    \/ ResolveSizes
    \/ Eval
    \/ CallForwardImpl

SpecFusion == InitFusion /\ [][NextFusion]_vars

(***************************************************************************)
(* Single units: _make_layer called on an assembler whose running counters  *)
(* are those of the calls before, and a Bottleneck block built and applied  *)
(* on its own.                                                              *)
(***************************************************************************)
PlanesArgs == 2..MaxPlanes

InitUnits ==
    /\ pc = "units"
    /\ layers = <<2, 1, 1>>
    /\ replace_stride_with_dilation = AllFalse(layers)
    /\ zero_init_residual = TRUE
    /\ groups \in 1..MaxGroups
    /\ width_per_group \in BaseWidths
    /\ stacked_obs = FALSE
    /\ features_dim = DefaultFeaturesDim
    /\ inplanes = 64
    /\ dilation = 1
    /\ net = <<>>
    /\ sizes = None
    /\ training = FALSE
    /\ num_batches_tracked = <<>>
    /\ last = NoCall
    /\ error = "none"

\* self._make_layer(block, planes, blocks, stride, dilate)
MakeLayer(planes, blocks, stride, dilate) ==
    /\ pc = "units"
    /\ last.op # "Bottleneck"
    /\ dilation <= MaxDilation
    /\ LET made == _make_layer(inplanes, dilation, planes, blocks, stride, dilate,
                               groups, width_per_group)
       IN  /\ inplanes' = made.inplanes
           /\ dilation' = made.dilation
           /\ last' = [op |-> "_make_layer", inplanes |-> inplanes, dilation |-> dilation,
                       planes |-> planes, blocks |-> blocks, stride |-> stride,
                       dilate |-> dilate, stage |-> made.layers]
    /\ UNCHANGED <<cfgvars, pc, net, sizes, training, num_batches_tracked, error>>

\* the projection shortcut _make_layer gives a block
Shortcut(inpl, planes, stride) ==
    <<conv1x1(inpl, planes * expansion, stride), BatchNorm2d(planes * expansion)>>

\* Bottleneck(inpl, planes, stride, downsample, groups, base_width, dil)(x),
\* x of shape (batch, inpl, h, w), in evaluation mode
BottleneckCall(inpl, planes, stride, shortcut, dil, batch, h, w) ==
    /\ pc = "units"
    /\ last = NoCall
    /\ LET block == Bottleneck(inpl, planes, stride,
                               IF shortcut THEN Shortcut(inpl, planes, stride) ELSE None,
                               groups, width_per_group, dil)
           x == Tensor(<<batch, inpl, h, w>>, FALSE)
       IN  last' = [op |-> "Bottleneck", inplanes |-> inpl, planes |-> planes,
                    stride |-> stride, shortcut |-> shortcut, dilation |-> dil,
                    x |-> x.shape,
                    branch |-> BottleneckBranch(block, "block", 1, x, FALSE),
                    identity |-> BottleneckIdentity(block, "block", 1, x,
                                    BottleneckBranch(block, "block", 1, x, FALSE), FALSE),
                    out |-> BottleneckForward(block, "block", 1, x, FALSE),
                    block |-> block]
    /\ UNCHANGED <<cfgvars, pc, inplanes, dilation, net, sizes, training,
                   num_batches_tracked, error>>

CallMakeLayer ==
    \E planes \in PlanesArgs, blocks \in 0..MaxBlocks, stride \in 1..MaxStride,
       dilate \in BOOLEAN : MakeLayer(planes, blocks, stride, dilate)

CallBottleneck ==
    \E planes \in PlanesArgs, stride \in 1..MaxStride, shortcut \in BOOLEAN,
       dil \in 1..MaxDilation, batch \in 1..MaxBatch, h \in 1..MaxSide, w \in 1..MaxSide :
        \E inpl \in {planes, planes * expansion} :
            BottleneckCall(inpl, planes, stride, shortcut, dil, batch, h, w)

NextUnits ==
    \/ CallMakeLayer
    \/ CallBottleneck

SpecUnits == InitUnits /\ [][NextUnits]_vars

\* the network the construction steps leave is the one Assembled describes
BuiltAsAssembled ==
    pc = "built" =>
        LET built == Assembled(layers, replace_stride_with_dilation, zero_init_residual,
                               groups, width_per_group, features_dim)
        IN  net = built.net /\ inplanes = built.inplanes /\ dilation = built.dilation
            /\ num_batches_tracked = [path \in NormPaths(net) |-> 0]

(***************************************************************************)
(* Properties.                                                              *)
(***************************************************************************)
Stages == {"layer1", "layer2", "layer3"}

\* every convolution of a network: those of the Bottleneck blocks and their
\* shortcuts, and those that are attributes or elements of a Sequential
Convolutions(network) ==
    UNION {
        IF name \in SequentialNames
        THEN UNION {
                LET m == network[name][i]
                IN  IF m.kind = "Bottleneck"
                    THEN {m.conv1, m.conv2, m.conv3}
                         \cup {m.downsample[j] : j \in {k \in 1..Len(m.downsample) :
                                                          m.downsample[k].kind = "Conv2d"}}
                    ELSE IF m.kind = "Conv2d" THEN {m} ELSE {} : i \in 1..Len(network[name])}
        ELSE IF network[name].kind = "Conv2d" THEN {network[name]}
        ELSE {} : name \in DOMAIN network}

\* C1: in evaluation mode, forward on a batch of B observations of length
\* S*S + 2*S*S + 2, for an extractor built with layers = [2, 1, 1] whose resolved
\* sizes are S*S, 2*S*S and 2, raises nothing and returns a tensor of shape
\* (B, features_dim).
C1_ForwardShape ==
    (/\ last.op = "forward"
     /\ ~last.training
     /\ layers = <<2, 1, 1>>
     /\ sizes.scan_map_size = sizes.feature_map_size * sizes.feature_map_size
     /\ sizes.ped_map_size = 2 * sizes.feature_map_size * sizes.feature_map_size
     /\ sizes.goal_size = 2
     /\ last.n = sizes.scan_map_size + sizes.ped_map_size + sizes.goal_size)
    => (~last.out.err /\ last.out.shape = <<last.batch, features_dim>>)

\* C2: on a row laid out as scan | pedestrian | goal, forward takes as scan the
\* first scan_map_size columns, as pedestrian the next ped_map_size columns and
\* as goal the last goal_size columns.
C2_ModalitySlices ==
    (/\ last.op = "forward"
     /\ last.n = sizes.scan_map_size + sizes.ped_map_size + sizes.goal_size)
    => /\ last.slices.scan = [lo |-> 0, hi |-> sizes.scan_map_size]
       /\ last.slices.ped_pos = [lo |-> sizes.scan_map_size,
                                 hi |-> sizes.scan_map_size + sizes.ped_map_size]
       /\ last.slices.goal = [lo |-> last.n - sizes.goal_size, hi |-> last.n]

\* C3: in evaluation mode, for every constructed configuration and a stem output
\* (B, 64, H, W) with H and W divisible by 4, the operands of the second fusion
\* sum are both (B, 512, H/4, W/4) and those of the first are both
\* (B, 256, H/2, W/2).
C3_FusionOperands ==
    (/\ last.op = "_forward_impl"
     /\ ~last.training
     /\ Len(last.stem) = 4
     /\ last.stem[3] % 4 = 0
     /\ last.stem[4] % 4 = 0)
    => LET B == last.stem[1]
           H == last.stem[3]
           W == last.stem[4]
       IN  /\ last.stem[2] = 64
           /\ last.sum2 = <<(<<B, 256, H \div 2, W \div 2>>), (<<B, 256, H \div 2, W \div 2>>)>>
           /\ last.sum3 = <<(<<B, 512, H \div 4, W \div 4>>), (<<B, 512, H \div 4, W \div 4>>)>>

\* C4: a replace_stride_with_dilation whose length differs from len(layers)
\* ends network setup with ValueError before any module is created; None is
\* replaced by an all-False list of length len(layers) and passes the validation.
C4_Validation ==
    last.op = "__init__" =>
        LET given == last.replace_stride_with_dilation
        IN  /\ (given # None /\ Len(given) # Len(layers))
                 => /\ pc \in {"setup", "failed"}
                    /\ DOMAIN net = {}
                    /\ pc = "failed" => error = "ValueError"
            /\ (given = None /\ pc # "setup")
                 => /\ replace_stride_with_dilation = [i \in 1..Len(layers) |-> FALSE]
                    /\ error # "ValueError"

C4_Witness ==
    /\ last.op = "__init__"
    /\ last.replace_stride_with_dilation # None
    /\ Len(last.replace_stride_with_dilation) > Len(layers)
    /\ pc = "failed"
    /\ error = "ValueError"

\* C5: the first block of a stage built by _make_layer has a projection
\* shortcut exactly when the stride it is built with is not 1 or the running
\* inplanes differs from planes * 2; no later block has one.
C5_ShortcutRule ==
    last.op = "_make_layer" =>
        /\ (Len(last.stage[1].downsample) > 0)
              <=> (last.stage[1].conv2.stride # 1 \/ last.inplanes # last.planes * 2)
        /\ Len(last.stage[1].downsample) > 0
              => /\ last.stage[1].downsample[1].kind = "Conv2d"
                 /\ last.stage[1].downsample[1].stride = last.stage[1].conv2.stride
                 /\ last.stage[1].downsample[1].out_channels = last.planes * 2
        /\ \A i \in 2..Len(last.stage) : Len(last.stage[i].downsample) = 0

C5_Witness ==
    /\ last.op = "_make_layer"
    /\ Len(last.stage) >= 2
    /\ Len(last.stage[1].downsample) = 0
    /\ last.inplanes = last.planes * 2

\* the spatial size a stage gives an input of h by w, in evaluation mode
StageOutput(stage, channels, h, w) ==
    SequentialForward(stage, "stage", Tensor(<<1, channels, h, w>>, FALSE), FALSE)

\* C6: a stage built with dilate = true and stride = 2 leaves the running
\* dilation doubled, its first block is built with stride 1, and its output has
\* the spatial size of its input, as that of the stage built with stride 1 and
\* no dilation has.
C6_DilationSubstitution ==
    (last.op = "_make_layer" /\ last.dilate /\ last.stride = 2) =>
        /\ dilation = 2 * last.dilation
        /\ last.stage[1].stride = 1
        /\ last.stage[1].conv2.stride = 1
        /\ \A h \in 1..MaxSide, w \in 1..MaxSide :
              LET plain == _make_layer(last.inplanes, last.dilation, last.planes,
                                       last.blocks, 1, FALSE, groups, width_per_group)
                  got == StageOutput(last.stage, last.inplanes, h, w)
              IN  /\ ~got.err
                  /\ got.shape = <<1, last.planes * 2, h, w>>
                  /\ got.shape = StageOutput(plain.layers, last.inplanes, h, w).shape

C6_Witness ==
    /\ last.op = "_make_layer"
    /\ last.dilate
    /\ last.stride = 2
    /\ last.dilation = 2
    /\ dilation = 4
    /\ Len(last.stage) >= 2

C8_ZeroInitResidual ==
    pc = "built" =>
        \A name \in Stages : \A i \in 1..Len(net[name]) :
            net[name][i].bn3.weight = (IF zero_init_residual THEN 0 ELSE 1)

C8_Witness ==
    /\ pc = "built"
    /\ zero_init_residual
    /\ Len(net["layer1"]) = 2
    /\ net["layer1"][2].bn3.weight = 0
    /\ net["layer1"][2].bn2.weight = 1

\* C9: a call of forward or _forward_impl in evaluation mode leaves the
\* weights, the running statistics and the cached input sizes unchanged and
\* writes nothing into the observation tensor; a call that repeats the call
\* before it returns what that call returned.
C9_EvalForwardStateless ==
    [][(pc = "ready" /\ ~training /\ ~training')
          => /\ net' = net
             /\ num_batches_tracked' = num_batches_tracked
             /\ sizes' = sizes
             /\ last'.op # "none" => ~last'.out.written
             /\ (/\ last.op = last'.op
                 /\ last.op # "none"
                 /\ ~last.training
                 /\ last.batch = last'.batch
                 /\ last.op = "forward" => last.n = last'.n)
                   => last'.out = last.out]_vars

C9_Witness ==
    /\ last.op = "_forward_impl"
    /\ ~last.training
    /\ ~last.out.err
    /\ last.out.shape = <<last.batch, features_dim>>
    /\ \E path \in DOMAIN num_batches_tracked : num_batches_tracked[path] = 1

\* C10: no convolution of the assembled network has a bias.
C10_NoConvolutionBias ==
    pc = "built" => \A m \in Convolutions(net) : ~m.bias

\* the channel counts of a Bottleneck block that carry its intermediate width
InternalWidths(block) ==
    {block.conv1.out_channels, block.bn1.num_features,
     block.conv2.in_channels, block.conv2.out_channels,
     block.bn2.num_features, block.conv3.in_channels}

\* C11 as stated: the intermediate channel count of a Bottleneck block is
\* planes * base_width * groups / 64 rounded down once as a whole.
C11_WidthRoundedOnce ==
    last.op = "Bottleneck" =>
        InternalWidths(last.block)
            = {(last.planes * width_per_group * groups) \div 64}

\* C11 as amended: the intermediate channel count of a Bottleneck block is
\* planes * base_width / 64 rounded down, and the rounded value times groups;
\* it is a multiple of groups and never more than the value rounded once.
C11_InternalWidth ==
    last.op = "Bottleneck" =>
        LET width == ((last.planes * width_per_group) \div 64) * groups
        IN  /\ InternalWidths(last.block) = {width}
            /\ width % groups = 0
            /\ width <= (last.planes * width_per_group * groups) \div 64
            /\ last.block.conv2.groups = groups

C11_Witness ==
    /\ last.op = "Bottleneck"
    /\ last.planes = 3
    /\ width_per_group = 32
    /\ groups = 2
    /\ InternalWidths(last.block) = {2}

====
